---------------------------- MODULE Spec2Model ----------------------------
(***************************************************************************)
(* Model of the /chat turn-resolution pipeline of src/index.js.            *)
(*                                                                         *)
(* Text.  A JavaScript string is modelled as the sequence of its tokens:   *)
(* every maximal run of [A-Za-z0-9] is one token and every punctuation     *)
(* mark is one token; white space separates tokens and is not kept.  The   *)
(* empty string is << >>, concatenation is \o, and a string is truthy      *)
(* exactly when it is not << >>.                                           *)
(*                                                                         *)
(* Optional values.  A JSON field that may be absent is a sequence of      *)
(* length at most one: << >> when absent (or null), << v >> when present.  *)
(***************************************************************************)
EXTENDS Integers, Sequences, FiniteSets

---------------------------------------------------------------------------
(* Generic helpers                                                         *)

None == << >>

Some(v) == << v >>

\* a ?? b  /  bval's final "cur ?? fallback"
Nullish(o, fallback) == IF o = << >> THEN fallback ELSE o[1]

Min2(a, b) == IF a <= b THEN a ELSE b

Max2(a, b) == IF a >= b THEN a ELSE b

\* Array.prototype.slice(start) / String.prototype.slice(start)
JsSlice(seq, start) ==
    LET len  == Len(seq)
        from == IF start < 0 THEN Max2(len + start, 0) ELSE Min2(start, len)
    IN  SubSeq(seq, from + 1, len)

\* Array.prototype.slice(0, count)
JsTake(seq, count) ==
    LET len == Len(seq)
        to  == IF count < 0 THEN Max2(len + count, 0) ELSE Min2(count, len)
    IN  SubSeq(seq, 1, to)

IsSuffix(suf, seq) ==
    /\ Len(suf) <= Len(seq)
    /\ SubSeq(seq, Len(seq) - Len(suf) + 1, Len(seq)) = suf

IsPrefix(pre, seq) ==
    /\ Len(pre) <= Len(seq)
    /\ SubSeq(seq, 1, Len(pre)) = pre

RECURSIVE Flatten(_)
Flatten(seqs) ==
    IF seqs = << >> THEN << >> ELSE Head(seqs) \o Flatten(Tail(seqs))

---------------------------------------------------------------------------
(* Tokens, case folding, patterns                                          *)

\* String.prototype.toLowerCase on one token; the tokens of the model that
\* carry upper-case letters are listed, every other token is lower-case.
UpperTokens ==
    [ Last |-> "last", Message |-> "message", PRICE |-> "price",
      Install |-> "install", Hi |-> "hi" ]

LowerToken(w) == IF w \in DOMAIN UpperTokens THEN UpperTokens[w] ELSE w

\* messageRaw.trim().toLowerCase()
ToLower(text) == [ i \in 1..Len(text) |-> LowerToken(text[i]) ]

\* Tokens that hold no [a-z0-9] character.
Punctuation == { "?", "!", ".", "-", ",", "'", ":", "$", "/", "_", "{{text}}" }

HasWord(text, words) == \E i \in 1..Len(text) : text[i] \in words

HasPhrase(text, phrase) ==
    \E i \in 1..(Len(text) - Len(phrase) + 1) :
        SubSeq(text, i, i + Len(phrase) - 1) = phrase

\* /\b(last message|what did you just say|what was your previous reply)\b/i
RECALL_RE(lower) ==
    \/ HasPhrase(lower, << "last", "message" >>)
    \/ HasPhrase(lower, << "what", "did", "you", "just", "say" >>)
    \/ HasPhrase(lower, << "what", "was", "your", "previous", "reply" >>)

\* /\b(hi|hello|hey|yo|howdy|good (morning|afternoon|evening))\b/i
GREETING_RE(lower) ==
    \/ HasWord(lower, { "hi", "hello", "hey", "yo", "howdy" })
    \/ \E t \in { "morning", "afternoon", "evening" } :
           HasPhrase(lower, << "good", t >>)

\* /^(\s*[\?\.!]*\s*|what[?!]*|are you[?!]*|huh[?!]*|idk|ok|k|sure|yeah|yep|
\*    nope|who(dis)?|sup)\s*$/i
LOWINFO_RE(lower) ==
    LET marks(t) == \A i \in 1..Len(t) : t[i] \in { "?", "!" }
    IN  \/ \A i \in 1..Len(lower) : lower[i] \in { "?", ".", "!" }
        \/ /\ Len(lower) >= 1
           /\ lower[1] \in { "what", "huh" }
           /\ marks(Tail(lower))
        \/ /\ Len(lower) >= 2
           /\ SubSeq(lower, 1, 2) = << "are", "you" >>
           /\ marks(SubSeq(lower, 3, Len(lower)))
        \/ /\ Len(lower) = 1
           /\ lower[1] \in { "idk", "ok", "k", "sure", "yeah", "yep", "nope",
                             "who", "whodis", "sup" }

\* /\b(price|pricing|cost|fee|charge|subscription|money)\b/i
PRICING_RE(lower) ==
    HasWord(lower, { "price", "pricing", "cost", "fee", "charge",
                     "subscription", "money" })

\* /\b(no|nope|that's all|nothing|i'm good|im good|all set)\b/i
CLOSING_RE(lower) ==
    \/ HasWord(lower, { "no", "nope", "nothing" })
    \/ HasPhrase(lower, << "that", "'", "s", "all" >>)
    \/ HasPhrase(lower, << "i", "'", "m", "good" >>)
    \/ HasPhrase(lower, << "im", "good" >>)
    \/ HasPhrase(lower, << "all", "set" >>)

---------------------------------------------------------------------------
(* Tokenizer and overlap scorer                                            *)

DEFAULT_STOPWORDS ==
    { "the", "a", "an", "and", "or", "but", "of", "to", "in", "on", "for",
      "with", "about", "is", "it", "this", "that", "i", "you", "we", "me",
      "my", "your", "our", "at", "as", "by", "be", "are", "was", "were",
      "from", "can", "how", "what", "when", "where", "why", "do", "did",
      "does", "please", "could", "would", "should", "tell", "say", "more",
      "expand", "details", "detail", "info" }

\* tokenize(s): lower-case, punctuation to blanks, split, drop stop words.
\* The result is only ever used as a set (overlapScore builds Sets).
tokenize(text) ==
    { LowerToken(text[i]) : i \in 1..Len(text) }
        \ (Punctuation \cup DEFAULT_STOPWORDS)

\* overlapScore(aTokens, bTokens) = inter / sqrt(|A| * |B|), 0 if either is
\* empty.  The value n / sqrt(d) is kept exactly as the pair [n, d]; for
\* the token-set sizes of this model (candidates of at most 8 tokens) the
\* order of the IEEE doubles the code computes is the order of the exact
\* values.
overlapScore(aTokens, bTokens) ==
    IF aTokens = {} \/ bTokens = {}
    THEN [n |-> 0, d |-> 1]
    ELSE [n |-> Cardinality(aTokens \cap bTokens),
          d |-> Cardinality(aTokens) * Cardinality(bTokens)]

\* x > y on scores
ScoreGt(x, y) == x.n * x.n * y.d > y.n * y.n * x.d

\* score >= minScore, minScore given in hundredths
ScoreGeHundredths(x, h) ==
    IF h <= 0 THEN TRUE ELSE x.n * x.n * 10000 >= h * h * x.d

---------------------------------------------------------------------------
(* Tenant configuration                                                    *)
(*                                                                         *)
(* faqs            sequence of [q, keywords, a]; q and a are texts, << >>  *)
(*                 when the field is missing or empty (the code tests both *)
(*                 with "||" / filter(Boolean) only)                       *)
(* knowledge       Object.entries(cfg.knowledge) as a sequence of          *)
(*                 [k, isArray, s, lines]: key text, and either the string *)
(*                 s or the array lines                                    *)
(* every other field is optional (None when absent).                       *)

\* Literal strings of the source, each kept as one token.
DefaultPricingLine ==
    << "Our service costs $35 per month with an initial setup fee of $75." >>

DefaultGreeterMessage ==
    << "Hi! I'm here to help with setup, support, or pricing - what do you need?" >>

DefaultClarifyMessage ==
    << "Got it - what do you need help with (installation steps, pricing, or lead setup)?" >>

DefaultLastTpl == << "My last message was:", "{{text}}" >>

DefaultLastNoneTpl ==
    << "I haven't sent a prior message yet in this session." >>

DefaultFallback1 ==
    << "I'm not certain yet - could you clarify what you need (installation steps, pricing, or lead setup)?" >>

DefaultFallback2 == << "I can help with installation, pricing, or lead setup." >>

DefaultErrorNoteOnce == << "(temporary issue, trying again shortly)" >>

MenuHeader == << "Here are a few things I can help with:" >>

MenuBullet == << "-" >>

DefaultMenuItemCount == 4

DefaultHistoryTurns == 8

\* 0.18, in hundredths
DefaultMinScore == 18

PricingKeywords ==
    { "pricing", "cost", "monthly", "fee", "charge", "subscription", "price",
      "money" }

PricingPolicyKey == << "pricing", "_", "policy" >>

\* cfg?.knowledge?.pricing_policy
KnowledgePricingPolicy(cfg) ==
    LET hits == { i \in 1..Len(cfg.knowledge) :
                      cfg.knowledge[i].k = PricingPolicyKey }
    IN  IF hits = {} THEN << >>
        ELSE LET e == cfg.knowledge[CHOOSE i \in hits : TRUE]
             IN  IF e.isArray THEN Flatten(e.lines) ELSE e.s

RECURSIVE FirstPricingFaq(_, _)
\* the for-loop of getPricingLine: index of the first FAQ with a pricing
\* keyword, 0 when there is none
FirstPricingFaq(faqs, i) ==
    IF i > Len(faqs) THEN 0
    ELSE IF \E j \in 1..Len(faqs[i].keywords) :
                LowerToken(faqs[i].keywords[j]) \in PricingKeywords
         THEN i
         ELSE FirstPricingFaq(faqs, i + 1)

\* getPricingLine with the knowledge policy consulted before the FAQs
getPricingLine_PolicyFirst(cfg) ==
    LET i == FirstPricingFaq(cfg.faqs, 1)
    IN  IF KnowledgePricingPolicy(cfg) # << >>
        THEN KnowledgePricingPolicy(cfg)
        ELSE IF i > 0 THEN cfg.faqs[i].a
             ELSE DefaultPricingLine

getPricingLine(cfg) ==
    LET i == FirstPricingFaq(cfg.faqs, 1)
    IN  IF i > 0 THEN cfg.faqs[i].a
        ELSE IF KnowledgePricingPolicy(cfg) # << >>
             THEN KnowledgePricingPolicy(cfg)
             ELSE DefaultPricingLine

---------------------------------------------------------------------------
(* Semantic matcher                                                        *)

IndexToken(i) == << "1", "2", "3", "4", "5", "6" >>[i]

RECURSIVE collectKnowledgeSnippets(_)
\* argument: the entries of cfg.knowledge
collectKnowledgeSnippets(entries) ==
    IF entries = << >> THEN << >>
    ELSE LET e == Head(entries)
             here == IF e.isArray
                     THEN [ i \in 1..Len(e.lines) |->
                              [q |-> e.k \o << IndexToken(i) >>, a |-> e.lines[i]] ]
                     ELSE << [q |-> e.k, a |-> e.s] >>
         IN  here \o collectKnowledgeSnippets(Tail(entries))

\* items of bestSemanticMatch: FAQs first, then knowledge snippets
SemanticItems(cfg) ==
    [ i \in 1..Len(cfg.faqs) |->
        [q |-> cfg.faqs[i].q \o cfg.faqs[i].keywords, a |-> cfg.faqs[i].a] ]
    \o collectKnowledgeSnippets(cfg.knowledge)

CandidateScore(itm, uTok) == overlapScore(uTok, tokenize(itm.q \o itm.a))

\* the test with ">=" for ">"
BetterThanBest_OrEqual(best, score) ==
    best = << >> \/ ~ScoreGt(best[1].score, score)

\* if (!best || score > best.score) best = { idx, item, score }
BetterThanBest(best, score) == best = << >> \/ ScoreGt(score, best[1].score)

RECURSIVE ScanItems(_, _, _, _)
\* items.forEach((itm, idx) => ...), from index idx on; best is None or
\* << [idx, item, score] >>
ScanItems(items, uTok, idx, best) ==
    IF idx > Len(items) THEN best
    ELSE LET score == CandidateScore(items[idx], uTok)
             next  == IF BetterThanBest(best, score)
                      THEN << [idx |-> idx, item |-> items[idx], score |-> score] >>
                      ELSE best
         IN  ScanItems(items, uTok, idx + 1, next)

\* the value of "best" after the forEach
BestCandidate(cfg, userMsg) ==
    ScanItems(SemanticItems(cfg), tokenize(userMsg), 1, << >>)

\* bestSemanticMatch(cfg, userMsg, minScore): None for null, else << item >>;
\* minScore in hundredths
bestSemanticMatch(cfg, userMsg, minScore) ==
    LET best == BestCandidate(cfg, userMsg)
    IN  IF best # << >> /\ ScoreGeHundredths(best[1].score, minScore)
        THEN << best[1].item >>
        ELSE << >>

---------------------------------------------------------------------------
(* Menus                                                                   *)

RECURSIVE JoinQuestions(_)
JoinQuestions(qs) ==
    IF qs = << >> THEN << >>
    ELSE IF Len(qs) = 1 THEN Head(qs)
    ELSE Head(qs) \o MenuBullet \o JoinQuestions(Tail(qs))

menuFromCommonQuestions(cfg, count) ==
    LET qs == JsTake(cfg.commonQuestions, count)
    IN  IF qs = << >> THEN << >>
        ELSE MenuHeader \o MenuBullet \o JoinQuestions(qs)

---------------------------------------------------------------------------
(* Behaviour options of one request (src/index.js, "Behavior config")      *)

enableGreeter(cfg) == Nullish(cfg.enableGreeter, TRUE)

greeterMessage(cfg) ==
    Nullish(cfg.greeterMessage,
            IF cfg.welcomeMessage # << >> THEN cfg.welcomeMessage
            ELSE DefaultGreeterMessage)

clarifyMessage(cfg) == Nullish(cfg.clarifyMessage, DefaultClarifyMessage)

menuItemCount(cfg) == Nullish(cfg.menuItemCount, DefaultMenuItemCount)

\* bval(cfg, "semantic.minScore", 0.18), in hundredths
minSemantic(cfg) == Nullish(cfg.minScore, DefaultMinScore)

historyTurns(cfg) == Nullish(cfg.historyTurns, DefaultHistoryTurns)

lastTpl(cfg) == Nullish(cfg.lastMessageTemplate, DefaultLastTpl)

lastNoneTpl(cfg) == Nullish(cfg.noLastMessageTemplate, DefaultLastNoneTpl)

enableNRFallback(cfg) == Nullish(cfg.enableNonRepeatingFallback, TRUE)

attachMenuOnFallback(cfg) == Nullish(cfg.attachMenuOnFallback, TRUE)

fallback1(cfg) ==
    IF cfg.fallbackAnswer # << >> THEN cfg.fallbackAnswer ELSE DefaultFallback1

fallback2(cfg) ==
    IF cfg.fallbackSecondAnswer # << >> THEN cfg.fallbackSecondAnswer
    ELSE DefaultFallback2

errorNoteOnce(cfg) == Nullish(cfg.errorNoteOnce, DefaultErrorNoteOnce)

\* A pattern of behavior.greetingPatterns / behavior.lowInfoPatterns is a
\* record [kind, w]: "word" is the source \bw\b, "exact" the source ^w$,
\* "broken" a source the RegExp constructor rejects.
PatternTest(p, lower) ==
    CASE p.kind = "word" -> HasWord(lower, { p.w })
      [] p.kind = "exact" -> lower = << p.w >>
      [] OTHER -> FALSE

\* safeRegexUnion(patterns, fallbackRe).test(lower); fallback is
\* fallbackRe.test(lower)
safeRegexUnion(patterns, fallback, lower) ==
    IF patterns = << >> THEN fallback
    ELSE IF \E i \in 1..Len(patterns) : patterns[i].kind = "broken"
         THEN fallback
         ELSE \E i \in 1..Len(patterns) : PatternTest(patterns[i], lower)

\* GREETING_RE.test(lower) with the tenant's greetingPatterns; without
\* them bval hands the default source, which is the fallback pattern
GreetingTest(cfg, lower) ==
    IF cfg.greetingPatterns = None THEN GREETING_RE(lower)
    ELSE safeRegexUnion(cfg.greetingPatterns[1], GREETING_RE(lower), lower)

\* LOWINFO_RE.test(lower) with the tenant's lowInfoPatterns
LowInfoTest(cfg, lower) ==
    IF cfg.lowInfoPatterns = None THEN LOWINFO_RE(lower)
    ELSE safeRegexUnion(cfg.lowInfoPatterns[1], LOWINFO_RE(lower), lower)

\* if (menuItemCount > 0) reply += menuFromCommonQuestions(cfg, menuItemCount)
MenuSuffix(cfg) ==
    IF menuItemCount(cfg) > 0
    THEN menuFromCommonQuestions(cfg, menuItemCount(cfg))
    ELSE << >>

\* the same, behind attachMenuOnFallback
FallbackMenuSuffix(cfg) ==
    IF attachMenuOnFallback(cfg) THEN MenuSuffix(cfg) ELSE << >>

\* Number(minSemantic) || 0.18
SemanticThreshold(cfg) ==
    IF minSemantic(cfg) = 0 THEN DefaultMinScore ELSE minSemantic(cfg)

---------------------------------------------------------------------------
(* Session state and history                                               *)

\* { askedExtra: false, history: [], usedFallbackOnce: false,
\*   errorNotified: false }
NewSession ==
    [askedExtra |-> FALSE, history |-> << >>, usedFallbackOnce |-> FALSE,
     errorNotified |-> FALSE]

UserEntry(messageRaw) == [role |-> "user", content |-> messageRaw]

AssistantEntry(reply) == [role |-> "assistant", content |-> reply]

\* the truncation with the window of the provider's prior turns,
\* slice(-historyTurns)
PushTurn_HalfWindow(cfg, s, messageRaw, reply) ==
    [s EXCEPT !.history =
        JsSlice(@ \o << UserEntry(messageRaw), AssistantEntry(reply) >>,
                -historyTurns(cfg))]

\* s.history.push(user); s.history.push(assistant);
\* s.history = s.history.slice(-2 * historyTurns)
PushTurn(cfg, s, messageRaw, reply) ==
    [s EXCEPT !.history =
        JsSlice(@ \o << UserEntry(messageRaw), AssistantEntry(reply) >>,
                -2 * historyTurns(cfg))]

\* [...history].reverse().find(m => m.role === "assistant"): None or << m >>
LastAssistant(history) ==
    LET idx == { i \in 1..Len(history) : history[i].role = "assistant" }
    IN  IF idx = {} THEN << >>
        ELSE << history[CHOOSE i \in idx : \A j \in idx : j <= i] >>

\* tpl.replace("{{text}}", content): the first placeholder only
ReplacePlaceholder(tpl, content) ==
    LET idx == { i \in 1..Len(tpl) : tpl[i] = "{{text}}" }
    IN  IF idx = {} THEN tpl
        ELSE LET i == CHOOSE k \in idx : \A j \in idx : k <= j
             IN  SubSeq(tpl, 1, i - 1) \o content \o SubSeq(tpl, i + 1, Len(tpl))

---------------------------------------------------------------------------
(* The /chat handler.  One request runs synchronously up to the provider   *)
(* call (SyncStages) and, when it reached the call, resumes after it       *)
(* (AfterProvider).  A result is [stage, reply, s]; stage "await" means    *)
(* the request is suspended in the provider call and nothing was replied.  *)

\* 0) "what was your last message?"
RecallCond(lower) == RECALL_RE(lower)

RecallReply(cfg, s) ==
    LET last == LastAssistant(s.history)
    IN  IF last # << >> /\ last[1].content # << >>
        THEN ReplacePlaceholder(lastTpl(cfg), last[1].content)
        ELSE lastNoneTpl(cfg)

RecallStage(cfg, s, messageRaw) ==
    LET reply == RecallReply(cfg, s)
    IN  [stage |-> "recall", reply |-> reply,
         s |-> PushTurn(cfg, s, messageRaw, reply)]

\* 0.5) greeter / low-info handler
GreeterCond(cfg, lower) ==
    enableGreeter(cfg) /\ (GreetingTest(cfg, lower) \/ LowInfoTest(cfg, lower))

\* the greeter stage with the low-info pattern tested first
GreeterStage_LowInfoFirst(cfg, s, messageRaw) ==
    LET base  == IF LowInfoTest(cfg, ToLower(messageRaw))
                 THEN clarifyMessage(cfg)
                 ELSE greeterMessage(cfg)
        reply == base \o MenuSuffix(cfg)
    IN  [stage |-> "greeting", reply |-> reply,
         s |-> PushTurn(cfg, [s EXCEPT !.askedExtra = TRUE], messageRaw, reply)]

GreeterStage(cfg, s, messageRaw) ==
    LET base  == IF GreetingTest(cfg, ToLower(messageRaw))
                 THEN greeterMessage(cfg)
                 ELSE clarifyMessage(cfg)
        reply == base \o MenuSuffix(cfg)
    IN  [stage |-> "greeting", reply |-> reply,
         s |-> PushTurn(cfg, [s EXCEPT !.askedExtra = TRUE], messageRaw, reply)]

\* 1) semantic pass: const sem = bestSemanticMatch(cfg, lower, ...)
SemanticMatch(cfg, lower) == bestSemanticMatch(cfg, lower, SemanticThreshold(cfg))

\* if (sem?.a)
SemanticCond(cfg, lower) ==
    SemanticMatch(cfg, lower) # << >> /\ SemanticMatch(cfg, lower)[1].a # << >>

\* the semantic stage resetting the error-note flag with the fallback flag
SemanticStage_ClearsNotified(cfg, s, messageRaw) ==
    LET reply == SemanticMatch(cfg, ToLower(messageRaw))[1].a
    IN  [stage |-> "semantic", reply |-> reply,
         s |-> PushTurn(cfg,
                        [s EXCEPT !.askedExtra = TRUE, !.usedFallbackOnce = FALSE,
                                  !.errorNotified = FALSE],
                        messageRaw, reply)]

\* the semantic stage without "s.usedFallbackOnce = false"
SemanticStage_KeepsFallbackFlag(cfg, s, messageRaw) ==
    LET reply == SemanticMatch(cfg, ToLower(messageRaw))[1].a
    IN  [stage |-> "semantic", reply |-> reply,
         s |-> PushTurn(cfg, [s EXCEPT !.askedExtra = TRUE], messageRaw, reply)]

SemanticStage(cfg, s, messageRaw) ==
    LET reply == SemanticMatch(cfg, ToLower(messageRaw))[1].a
    IN  [stage |-> "semantic", reply |-> reply,
         s |-> PushTurn(cfg,
                        [s EXCEPT !.askedExtra = TRUE, !.usedFallbackOnce = FALSE],
                        messageRaw, reply)]

\* 2) pricing guardrail
\* the guardrail's pattern without "fee"
PricingCond_Narrow(lower) ==
    HasWord(lower, { "price", "pricing", "cost", "charge", "subscription",
                     "money" })

PricingCond(lower) == PRICING_RE(lower)

PricingStage(cfg, s, messageRaw) ==
    LET reply == getPricingLine(cfg)
    IN  [stage |-> "pricing", reply |-> reply,
         s |-> PushTurn(cfg, s, messageRaw, reply)]

\* the closing test without "s.askedExtra &&"
ClosingCond_IgnoresAsked(s, lower) == CLOSING_RE(lower)

\* 3) closing pass
ClosingCond(s, lower) == s.askedExtra /\ CLOSING_RE(lower)

ClosingStage(cfg, s, messageRaw) ==
    LET closing == cfg.closingMessage
    IN  [stage |-> "closing", reply |-> closing,
         s |-> PushTurn(cfg, s, messageRaw, closing)]

\* 4) up to the await: prior = (s.history || []).slice(-historyTurns)
AwaitProvider(cfg, s, messageRaw) ==
    [stage |-> "await", reply |-> << >>, s |-> s]

PriorTurns(cfg, s) == JsSlice(s.history, -historyTurns(cfg))

\* the cascade with the pricing guardrail tested before the semantic pass
SyncStages_GuardrailFirst(cfg, s, messageRaw) ==
    LET lower == ToLower(messageRaw)
    IN  IF RecallCond(lower) THEN RecallStage(cfg, s, messageRaw)
        ELSE IF GreeterCond(cfg, lower) THEN GreeterStage(cfg, s, messageRaw)
        ELSE IF PricingCond(lower) THEN PricingStage(cfg, s, messageRaw)
        ELSE IF SemanticCond(cfg, lower) THEN SemanticStage(cfg, s, messageRaw)
        ELSE IF ClosingCond(s, lower) THEN ClosingStage(cfg, s, messageRaw)
        ELSE AwaitProvider(cfg, s, messageRaw)

\* the if-cascade of the handler, lines 300-350, and the start of the try
SyncStages(cfg, s, messageRaw) ==
    LET lower == ToLower(messageRaw)
    IN  IF RecallCond(lower) THEN RecallStage(cfg, s, messageRaw)
        ELSE IF GreeterCond(cfg, lower) THEN GreeterStage(cfg, s, messageRaw)
        ELSE IF SemanticCond(cfg, lower) THEN SemanticStage(cfg, s, messageRaw)
        ELSE IF PricingCond(lower) THEN PricingStage(cfg, s, messageRaw)
        ELSE IF ClosingCond(s, lower) THEN ClosingStage(cfg, s, messageRaw)
        ELSE AwaitProvider(cfg, s, messageRaw)

\* the empty-response branch with the error note of the catch block
GenerativeStage_AddsNote(cfg, s, messageRaw, text) ==
    LET forced == IF PRICING_RE(ToLower(messageRaw)) THEN getPricingLine(cfg)
                  ELSE text
        empty  == forced = << >>
        reply  == IF empty
                  THEN fallback1(cfg) \o FallbackMenuSuffix(cfg)
                          \o errorNoteOnce(cfg)
                  ELSE forced
    IN  [stage |-> "generative", reply |-> reply,
         s |-> PushTurn(cfg,
                        [s EXCEPT !.askedExtra = TRUE, !.usedFallbackOnce = empty],
                        messageRaw, reply)]

\* the generative stage leaving usedFallbackOnce as it found it
GenerativeStage_KeepsFlag(cfg, s, messageRaw, text) ==
    LET forced == IF PRICING_RE(ToLower(messageRaw)) THEN getPricingLine(cfg)
                  ELSE text
        empty  == forced = << >>
        reply  == IF empty THEN fallback1(cfg) \o FallbackMenuSuffix(cfg)
                  ELSE forced
    IN  [stage |-> "generative", reply |-> reply,
         s |-> PushTurn(cfg, [s EXCEPT !.askedExtra = TRUE], messageRaw, reply)]

\* after the await, the provider answered; text is
\* rsp.choices?.[0]?.message?.content?.trim(), << >> when missing or empty
GenerativeStage(cfg, s, messageRaw, text) ==
    LET forced == IF PRICING_RE(ToLower(messageRaw)) THEN getPricingLine(cfg)
                  ELSE text
        empty  == forced = << >>
        reply  == IF empty THEN fallback1(cfg) \o FallbackMenuSuffix(cfg)
                  ELSE forced
    IN  [stage |-> "generative", reply |-> reply,
         s |-> PushTurn(cfg,
                        [s EXCEPT !.askedExtra = TRUE, !.usedFallbackOnce = empty],
                        messageRaw, reply)]

\* the test without its "!s.usedFallbackOnce"
FirstFallbackCond_IgnoresFlag(cfg, s) == enableNRFallback(cfg)

\* if (enableNRFallback && !s.usedFallbackOnce)
FirstFallbackCond(cfg, s) == enableNRFallback(cfg) /\ ~s.usedFallbackOnce

\* the catch block without the one-time error note
FailureStage_DropsNote(cfg, s, messageRaw) ==
    IF FirstFallbackCond(cfg, s)
    THEN LET reply == fallback1(cfg) \o FallbackMenuSuffix(cfg)
         IN  [stage |-> "failure", reply |-> reply, first |-> TRUE,
              s |-> PushTurn(cfg,
                             [s EXCEPT !.usedFallbackOnce = TRUE,
                                       !.errorNotified = TRUE],
                             messageRaw, reply)]
    ELSE LET reply == fallback2(cfg) \o FallbackMenuSuffix(cfg)
         IN  [stage |-> "failure", reply |-> reply, first |-> FALSE,
              s |-> PushTurn(cfg, s, messageRaw, reply)]

\* the catch block without its two flag assignments
FailureStage_ForgetsFlags(cfg, s, messageRaw) ==
    IF FirstFallbackCond(cfg, s)
    THEN LET note  == IF ~s.errorNotified /\ errorNoteOnce(cfg) # << >>
                      THEN errorNoteOnce(cfg) ELSE << >>
             reply == fallback1(cfg) \o FallbackMenuSuffix(cfg) \o note
         IN  [stage |-> "failure", reply |-> reply, first |-> TRUE,
              s |-> PushTurn(cfg, s, messageRaw, reply)]
    ELSE LET reply == fallback2(cfg) \o FallbackMenuSuffix(cfg)
         IN  [stage |-> "failure", reply |-> reply, first |-> FALSE,
              s |-> PushTurn(cfg, s, messageRaw, reply)]

\* catch (err): non-repeating fallback; first tells which fallback text the
\* reply was built from
FailureStage(cfg, s, messageRaw) ==
    IF FirstFallbackCond(cfg, s)
    THEN LET note  == IF ~s.errorNotified /\ errorNoteOnce(cfg) # << >>
                      THEN errorNoteOnce(cfg) ELSE << >>
             reply == fallback1(cfg) \o FallbackMenuSuffix(cfg) \o note
         IN  [stage |-> "failure", reply |-> reply, first |-> TRUE,
              s |-> PushTurn(cfg,
                             [s EXCEPT !.usedFallbackOnce = TRUE,
                                       !.errorNotified = TRUE],
                             messageRaw, reply)]
    ELSE LET reply == fallback2(cfg) \o FallbackMenuSuffix(cfg)
         IN  [stage |-> "failure", reply |-> reply, first |-> FALSE,
              s |-> PushTurn(cfg, s, messageRaw, reply)]

\* the try block without its catch: the rejection leaves the handler
AfterProvider_Propagates(cfg, s, messageRaw, outcome) ==
    IF outcome.throws
    THEN [stage |-> "error", reply |-> << >>, first |-> FALSE, s |-> s]
    ELSE GenerativeStage(cfg, s, messageRaw, outcome.text)

\* the rest of the try block and the catch; outcome is [throws, text]
AfterProvider(cfg, s, messageRaw, outcome) ==
    IF outcome.throws THEN FailureStage(cfg, s, messageRaw)
    ELSE GenerativeStage(cfg, s, messageRaw, outcome.text)

---------------------------------------------------------------------------
(* Tenants and messages of the model                                       *)

InstallFaq ==
    [q |-> << "how", "do", "i", "install" >>,
     keywords |-> << "install", "setup" >>,
     a |-> << "add", "the", "snippet" >>]

PricingFaq ==
    [q |-> << >>, keywords |-> << "pricing" >>,
     a |-> << "we", "charge", "$", "35", "/", "mo" >>]

\* a configuration file that sets nothing but its FAQs and common questions
BaseConfig ==
    [faqs |-> << InstallFaq, PricingFaq >>,
     knowledge |-> << >>,
     commonQuestions |-> << << "how", "to", "install", "?" >>,
                            << "pricing", "?" >> >>,
     closingMessage |-> << >>,
     welcomeMessage |-> << >>,
     enableGreeter |-> None,
     greeterMessage |-> None,
     clarifyMessage |-> None,
     greetingPatterns |-> None,
     lowInfoPatterns |-> None,
     menuItemCount |-> None,
     minScore |-> None,
     historyTurns |-> None,
     lastMessageTemplate |-> None,
     noLastMessageTemplate |-> None,
     enableNonRepeatingFallback |-> None,
     errorNoteOnce |-> None,
     attachMenuOnFallback |-> None,
     fallbackAnswer |-> << >>,
     fallbackSecondAnswer |-> << >>]

\* texts and menu: left to the defaults, or set by the tenant
TextProfiles ==
    { [closingMessage |-> << >>, greeterMessage |-> None,
       errorNoteOnce |-> None, menuItemCount |-> None,
       attachMenuOnFallback |-> None,
       fallbackAnswer |-> << >>, fallbackSecondAnswer |-> << >>],
      [closingMessage |-> << "bye" >>, greeterMessage |-> Some(<< >>),
       errorNoteOnce |-> Some(<< >>), menuItemCount |-> Some(0),
       attachMenuOnFallback |-> None,
       fallbackAnswer |-> << "sorry" >>, fallbackSecondAnswer |-> << "sorry" >>],
      [closingMessage |-> << >>, greeterMessage |-> None,
       errorNoteOnce |-> Some(<< "again" >>), menuItemCount |-> None,
       attachMenuOnFallback |-> Some(FALSE),
       fallbackAnswer |-> << "sorry" >>,
       fallbackSecondAnswer |-> << "sorry", "again" >>] }

HistoryTurnsChoices == { None, Some(0), Some(1) }

Configs ==
    { [BaseConfig EXCEPT
          !.historyTurns = ht,
          !.enableGreeter = g,
          !.enableNonRepeatingFallback = nr,
          !.closingMessage = tp.closingMessage,
          !.greeterMessage = tp.greeterMessage,
          !.errorNoteOnce = tp.errorNoteOnce,
          !.menuItemCount = tp.menuItemCount,
          !.attachMenuOnFallback = tp.attachMenuOnFallback,
          !.fallbackAnswer = tp.fallbackAnswer,
          !.fallbackSecondAnswer = tp.fallbackSecondAnswer] :
        ht \in HistoryTurnsChoices, g \in { None, Some(FALSE) },
        nr \in { None, Some(FALSE) }, tp \in TextProfiles }

\* req.body.message of the requests
Messages ==
    { << "Last", "message", "?" >>,
      << "Last", "message", "PRICE" >>,
      << "Hi" >>,
      << "nope" >>,
      << "no" >>,
      << "pricing" >>,
      << "Install", "PRICE" >>,
      << "fee" >>,
      << "refund" >> }

\* what the awaited provider call does: it rejects, or it resolves with a
\* response whose trimmed content is the text (<< >>: empty or missing)
Outcomes ==
    { [throws |-> TRUE, text |-> << >>],
      [throws |-> FALSE, text |-> << >>],
      [throws |-> FALSE, text |-> << "model", "answer" >>] }

\* requests of a run
MaxTurns == 3

---------------------------------------------------------------------------
(* State                                                                   *)

VARIABLES
    cfg,        \* the tenant's configuration, getClientConfig(clientId)
    sess,       \* req.session[clientId]: None, or << session >>
    pending,    \* requests suspended in the provider call, oldest first
    turns,      \* requests received so far
    last,       \* history variable: the turn that replied last, or None
    fails,      \* history variable: the provider-failure turns, in order
    call,       \* history variable: the last direct call of a helper, or None
    files,      \* configs/<id>.json on disk, by client id
    clientCache,\* clientCache[id]: None, or << cfg >>
    sessions,   \* req.session of every visitor: client id -> None or << s >>
    events,     \* client ids with an fs.watch event not yet delivered
    writes,     \* configuration files written so far
    lastParsed, \* history variable: the last configuration readClientConfig
                \* parsed for each client id, or None
    resp        \* history variable: the last step of a /chat request, or None

tvars == << files, clientCache, sessions, events, writes, lastParsed, resp >>

vars == << cfg, sess, pending, turns, last, fails, call, files, clientCache,
           sessions, events, writes, lastParsed, resp >>

\* if (!req.session[clientId]) req.session[clientId] = {...}
LoadSession(o) == IF o = << >> THEN NewSession ELSE o[1]

\* req.query.client after String(...).trim(): empty, two tenants with a
\* configuration file, and an id with no file
ClientIds == { "", "acme", "beta", "ghost" }

Visitors == { "v1", "v2" }

\* the states of a file configs/<id>.json: not there, there but not JSON,
\* or the JSON of a configuration
MissingFile == [exists |-> FALSE, json |-> None]

InvalidFile == [exists |-> TRUE, json |-> None]

ValidFile(c) == [exists |-> TRUE, json |-> Some(c)]

ConfigV1 == BaseConfig

ConfigV2 ==
    [BaseConfig EXCEPT !.closingMessage = << "bye" >>, !.historyTurns = Some(1)]

\* const clientCache = Object.create(null), every session store empty, and
\* the configs directory at start-up
TenantsInit ==
    /\ files = [id \in ClientIds |->
                  IF id \in { "acme", "beta" } THEN ValidFile(ConfigV1)
                  ELSE MissingFile]
    /\ clientCache = [id \in ClientIds |-> None]
    /\ sessions = [v \in Visitors |-> [id \in ClientIds |-> None]]
    /\ events = {}
    /\ writes = 0
    /\ lastParsed = [id \in ClientIds |-> None]
    /\ resp = None

Init ==
    /\ cfg \in Configs
    /\ sess = None
    /\ pending = << >>
    /\ turns = 0
    /\ last = None
    /\ fails = << >>
    /\ call = None
    /\ TenantsInit

\* the record of a turn that replied: its stage, message and reply, the
\* session at the handler's entry, the session the replying code started
\* from and the one it left, the provider's outcome, and the arrival
\* numbers of the requests suspended in the provider call while it replied
TurnRecord(res, entry, pre, messageRaw, outcome, waiting) ==
    [stage |-> res.stage, messageRaw |-> messageRaw, reply |-> res.reply,
     entry |-> entry, pre |-> pre, post |-> res.s, outcome |-> outcome,
     waiting |-> waiting]

\* arrival numbers of the suspended requests other than the i-th
Waiting(i) == { pending[k].no : k \in (1..Len(pending)) \ { i } }

\* stage of a finished turn, telling an empty provider response apart
StageTag(res, outcome) ==
    IF res.stage = "generative" /\ outcome # << >> /\ outcome[1].text = << >>
    THEN "generative-empty" ELSE res.stage

\* the turns that replied since the last failure (history variable kept in
\* the last entry of fails when there is one)
Between == IF fails = << >> THEN {} ELSE fails[Len(fails)].after

\* POST /chat up to its first reply or to the provider call
ChatStart(messageRaw, inFlight) ==
    /\ turns < MaxTurns
    /\ Len(pending) < inFlight
    /\ LET pre == LoadSession(sess)
           res == SyncStages(cfg, pre, messageRaw)
       IN  /\ sess' = << res.s >>
           /\ turns' = turns + 1
           /\ IF res.stage = "await"
              THEN /\ pending' = Append(pending,
                                        [messageRaw |-> messageRaw,
                                         no |-> turns + 1,
                                         entry |-> pre,
                                         prior |-> PriorTurns(cfg, pre)])
                   /\ UNCHANGED << last, fails >>
              ELSE /\ pending' = pending
                   /\ last' = << TurnRecord(res, pre, pre, messageRaw, None,
                                             Waiting(0)) >>
                   /\ fails' = IF fails = << >> THEN fails
                               ELSE [fails EXCEPT ![Len(fails)].after =
                                        @ \cup { StageTag(res, None) }]
    /\ UNCHANGED << cfg, call >>
    /\ UNCHANGED tvars

\* the handler resuming with the flags it found at its entry, as if the
\* test of usedFallbackOnce and errorNotified were made before the await
ProviderReturn_StaleFlags(i, outcome) ==
    /\ i \in 1..Len(pending)
    /\ LET req == pending[i]
           pre == [LoadSession(sess) EXCEPT
                      !.usedFallbackOnce = req.entry.usedFallbackOnce,
                      !.errorNotified = req.entry.errorNotified]
           res == AfterProvider(cfg, pre, req.messageRaw, outcome)
       IN  /\ sess' = << res.s >>
           /\ last' = << TurnRecord(res, req.entry, pre, req.messageRaw,
                                     << outcome >>, Waiting(i)) >>
           /\ fails' =
                IF res.stage = "failure"
                THEN Append(fails,
                            [first |-> res.first, reply |-> res.reply,
                             pre |-> pre, before |-> Between, after |-> {},
                             no |-> req.no, waiting |-> Waiting(i)])
                ELSE IF fails = << >> THEN fails
                ELSE [fails EXCEPT ![Len(fails)].after =
                         @ \cup { StageTag(res, << outcome >>) }]
    /\ pending' = SubSeq(pending, 1, i - 1) \o SubSeq(pending, i + 1, Len(pending))
    /\ UNCHANGED << cfg, turns, call >>
    /\ UNCHANGED tvars

\* the provider call of the i-th suspended request settles and the handler
\* runs to its reply
ProviderReturn(i, outcome) ==
    /\ i \in 1..Len(pending)
    /\ LET req == pending[i]
           pre == LoadSession(sess)
           res == AfterProvider(cfg, pre, req.messageRaw, outcome)
       IN  /\ sess' = << res.s >>
           /\ last' = << TurnRecord(res, req.entry, pre, req.messageRaw,
                                     << outcome >>, Waiting(i)) >>
           /\ fails' =
                IF res.stage = "failure"
                THEN Append(fails,
                            [first |-> res.first, reply |-> res.reply,
                             pre |-> pre, before |-> Between, after |-> {},
                             no |-> req.no, waiting |-> Waiting(i)])
                ELSE IF fails = << >> THEN fails
                ELSE [fails EXCEPT ![Len(fails)].after =
                         @ \cup { StageTag(res, << outcome >>) }]
    /\ pending' = SubSeq(pending, 1, i - 1) \o SubSeq(pending, i + 1, Len(pending))
    /\ UNCHANGED << cfg, turns, call >>
    /\ UNCHANGED tvars

\* one visitor, one request at a time
Chat == \E m \in Messages : ChatStart(m, 1)

Provider == \E i \in 1..Len(pending), o \in Outcomes : ProviderReturn(i, o)

Next == Chat \/ Provider

Spec == Init /\ [][Next]_vars

\* The same with the scheduling the handler can count on: a request that
\* arrives is handled (the event loop runs the handler), and that is all.
\* The awaited call is settled by the provider; the handler passes it no
\* timeout and no abort signal and arms no timer of its own (lines
\* 382-387), so no step of the code ends the wait and Provider is not fair.
SpecLive == Init /\ [][Next]_vars /\ WF_vars(Chat)

---------------------------------------------------------------------------
(* Properties of the turn-resolution pipeline                              *)

StageOrder ==
    << "recall", "greeting", "semantic", "pricing", "closing", "generative",
       "failure" >>

StageIndex(stage) == CHOOSE k \in 1..Len(StageOrder) : StageOrder[k] = stage

\* the condition of the k-th stage, for the finished turn t
StageHolds(k, t) ==
    LET lower == ToLower(t.messageRaw)
    IN  CASE k = 1 -> RecallCond(lower)
          [] k = 2 -> GreeterCond(cfg, lower)
          [] k = 3 -> SemanticCond(cfg, lower)
          [] k = 4 -> PricingCond(lower)
          [] k = 5 -> ClosingCond(t.entry, lower)
          [] k = 6 -> t.outcome # None /\ ~t.outcome[1].throws
          [] k = 7 -> t.outcome # None /\ t.outcome[1].throws

\* the session flags a stage assigns
StageFlags(stage) ==
    CASE stage = "greeting" -> { "askedExtra" }
      [] stage = "semantic" -> { "askedExtra", "usedFallbackOnce" }
      [] stage = "generative" -> { "askedExtra", "usedFallbackOnce" }
      [] stage = "failure" -> { "usedFallbackOnce", "errorNotified" }
      [] OTHER -> {}

TurnPair(t) == << UserEntry(t.messageRaw), AssistantEntry(t.reply) >>

\* C1: the turn that replied last was answered by the earliest stage, in
\* the order recall, greeting/low-info, semantic, pricing guardrail,
\* closing, generative, provider failure, whose condition held; it appended
\* one user entry and one reply to the history, and it assigned no flag
\* that only another stage assigns.
C1_EarliestStageReplies ==
    last # None =>
        LET t == last[1]
            k == StageIndex(t.stage)
        IN  /\ StageHolds(k, t)
            /\ \A j \in 1..(k - 1) : ~StageHolds(j, t)
            /\ IsSuffix(t.post.history, t.pre.history \o TurnPair(t))
            /\ \A f \in { "askedExtra", "usedFallbackOnce", "errorNotified" }
                        \ StageFlags(t.stage) : t.post[f] = t.pre[f]

\* C1 witness: a pricing-intent message answered by the semantic stage.
C1_Witness ==
    /\ last # None
    /\ last[1].stage = "semantic"
    /\ PRICING_RE(ToLower(last[1].messageRaw))
    /\ last[1].reply = PricingFaq.a

\* C2 (as claimed): the stored history never holds more than
\* 2 x historyTurns entries, for every configured historyTurns including 0,
\* and a turn leaves a suffix of the old history followed by its two entries.
C2_HistoryCapFifo ==
    /\ sess # None => Len(sess[1].history) <= 2 * historyTurns(cfg)
    /\ last # None =>
          IsSuffix(last[1].post.history,
                   last[1].pre.history \o TurnPair(last[1]))

\* C3 (as claimed): a message with pricing intent is answered with exactly
\* getPricingLine(cfg), whichever stage replies.
C3_PricingIntentVerbatim ==
    (last # None /\ PRICING_RE(ToLower(last[1].messageRaw)))
        => last[1].reply = getPricingLine(cfg)

\* the stages that clear usedFallbackOnce: a semantic hit, a non-empty
\* generative reply
ResetStages == { "semantic", "generative" }

\* C4 (as claimed): of two provider failures with no other failure between
\* them, whatever turns lie between, at most one reply is built from the
\* first fallback text.
C4_NeverFirstTwice ==
    \A i \in 2..Len(fails) : ~(fails[i - 1].first /\ fails[i].first)

\* C4 (amended): of two provider failures with no other failure, no
\* semantic hit and no non-empty generative reply between them, at most one
\* reply is built from the first fallback text.
C4_NeverFirstTwiceUnlessReset ==
    \A i \in 2..Len(fails) :
        (fails[i - 1].first /\ fails[i].first)
            => fails[i].before \cap ResetStages # {}

\* C4 witness: a failure answered with the first text, another turn, then a
\* failure answered with the second text.
C4_Witness ==
    /\ Len(fails) = 2
    /\ fails[1].first
    /\ ~fails[2].first
    /\ fails[2].before # {}
    /\ fails[2].before \cap ResetStages = {}

FirstFailureReply ==
    fallback1(cfg) \o FallbackMenuSuffix(cfg) \o errorNoteOnce(cfg)

SecondFailureReply == fallback2(cfg) \o FallbackMenuSuffix(cfg)

\* C5 (as claimed): in a session with two provider failures the first is
\* answered with fallback text #1 and the error note, the second with
\* fallback text #2, and the two replies differ, for every prefix and
\* every configuration.
C5_TwoFailures ==
    Len(fails) >= 2 =>
        /\ fails[1].reply = FirstFailureReply
        /\ fails[2].reply = SecondFailureReply
        /\ fails[1].reply # fails[2].reply

\* C5 (amended): the same, when non-repeating fallback is enabled,
\* usedFallbackOnce is false at the first failure and neither a semantic
\* hit nor a non-empty generative reply lies between the two failures; the
\* replies differ whenever fallback.answer is not a prefix of
\* fallback.secondAnswer.
C5_TwoFailuresEscalate ==
    ( /\ Len(fails) >= 2
      /\ enableNRFallback(cfg)
      /\ ~fails[1].pre.usedFallbackOnce
      /\ fails[2].before \cap ResetStages = {} )
    => /\ fails[1].reply = FirstFailureReply
       /\ fails[2].reply = SecondFailureReply
       /\ ~IsPrefix(fallback1(cfg), fallback2(cfg))
              => fails[1].reply # fails[2].reply

\* C5 witness: two failures after an earlier turn, escalating from the
\* first text with its note to the second text.
C5_Witness ==
    /\ Len(fails) >= 2
    /\ enableNRFallback(cfg)
    /\ ~fails[1].pre.usedFallbackOnce
    /\ fails[1].pre.history # << >>
    /\ fails[2].before \cap ResetStages = {}
    /\ errorNoteOnce(cfg) # << >>
    /\ ~IsPrefix(fallback1(cfg), fallback2(cfg))
    /\ fails[1].reply # fails[2].reply

\* C6 (as claimed): a reply is empty only when the closing stage returns
\* an empty closing message.
C6_ReplyNonEmpty ==
    last # None =>
        \/ last[1].reply # << >>
        \/ last[1].stage = "closing" /\ cfg.closingMessage = << >>

\* C7 (as claimed): the recall stage answers with the template around the
\* most recent assistant entry whenever the history holds one, and with the
\* "no prior message" notice only when it holds none.  Stated for the
\* tenants whose greeter message is not empty, where the only empty
\* assistant entry is an empty closing message.
C7_RecallUsesLastAssistant ==
    (last # None /\ last[1].stage = "recall" /\ greeterMessage(cfg) # << >>) =>
        LET la == LastAssistant(last[1].pre.history)
        IN  /\ la # None =>
                 last[1].reply = ReplacePlaceholder(lastTpl(cfg), la[1].content)
            /\ la = None => last[1].reply = lastNoneTpl(cfg)

\* C11: a turn is answered by the closing stage only if askedExtra was true
\* when the handler was entered and the message matches the closing
\* pattern; the first turn of a session is never answered by it.
C11_ClosingNeedsAnsweredBefore ==
    /\ (last # None /\ last[1].stage = "closing") =>
          /\ last[1].entry.askedExtra
          /\ CLOSING_RE(ToLower(last[1].messageRaw))
    /\ (last # None /\ turns = 1) => last[1].stage # "closing"

\* C11 witness: a later turn of a session answered by the closing stage.
C11_Witness ==
    /\ last # None
    /\ turns >= 2
    /\ last[1].stage = "closing"
    /\ last[1].entry.askedExtra

\* C12 (as claimed): after a turn answered by the recall, semantic,
\* pricing-guardrail, closing, generative or provider-failure stage
\* askedExtra is true, and a turn never resets it.
C12_AnsweredAfterNonGreeting ==
    last # None =>
        /\ last[1].stage # "greeting" => last[1].post.askedExtra
        /\ last[1].pre.askedExtra => last[1].post.askedExtra

\* C13: with historyTurns >= 1, when a turn returns, the last two entries
\* of the history are the raw user message and the returned reply.
C13_HistoryEndsWithTurn ==
    (last # None /\ historyTurns(cfg) >= 1) =>
        LET h == last[1].post.history
        IN  /\ Len(h) >= 2
            /\ h[Len(h) - 1] = [role |-> "user", content |-> last[1].messageRaw]
            /\ h[Len(h)] = [role |-> "assistant", content |-> last[1].reply]

\* C13 witness: a provider-failure turn with historyTurns = 1 whose
\* truncation dropped the entries of the turn before.
C13_Witness ==
    /\ last # None
    /\ historyTurns(cfg) = 1
    /\ last[1].stage = "failure"
    /\ Len(last[1].pre.history) = 2
    /\ Len(last[1].post.history) = 2

\* C14: when the provider call rejects, the turn is answered by the
\* failure stage with a non-empty reply that starts with one of the two
\* fallback texts, and the history ends with the message and that reply.
C14_ProviderFailureStillReplies ==
    (last # None /\ last[1].outcome # None /\ last[1].outcome[1].throws) =>
        /\ last[1].stage = "failure"
        /\ last[1].reply # << >>
        /\ \/ IsPrefix(fallback1(cfg), last[1].reply)
           \/ IsPrefix(fallback2(cfg), last[1].reply)
        /\ IsSuffix(TurnPair(last[1]), last[1].post.history)

\* C14 witness: the provider rejected for the second time in a session and
\* the turn was answered with the second fallback text.
C14_Witness ==
    /\ Len(fails) = 2
    /\ last # None
    /\ last[1].outcome # None
    /\ last[1].outcome[1].throws
    /\ last[1].reply = fails[2].reply
    /\ IsPrefix(fallback2(cfg), last[1].reply)

\* C15 (as claimed): a turn suspended in the provider call eventually
\* returns its reply, also when the provider never responds.
C15_ProviderTurnEventuallyReplies == (pending # << >>) ~> (pending = << >>)

\* the three flags of a session
SameFlags(a, b) ==
    /\ a.askedExtra = b.askedExtra
    /\ a.usedFallbackOnce = b.usedFallbackOnce
    /\ a.errorNotified = b.errorNotified

\* C22 (as claimed): for every tenant, a provider failure with
\* usedFallbackOnce false is answered with a reply that starts with the
\* first fallback text and leaves usedFallbackOnce and errorNotified true;
\* with usedFallbackOnce true the reply starts with the second fallback
\* text and the flags are unchanged.
C22_FailureByFlag ==
    (last # None /\ last[1].stage = "failure") =>
        LET t == last[1]
        IN  IF ~t.pre.usedFallbackOnce
            THEN /\ IsPrefix(fallback1(cfg), t.reply)
                 /\ t.post.usedFallbackOnce
                 /\ t.post.errorNotified
            ELSE /\ IsPrefix(fallback2(cfg), t.reply)
                 /\ SameFlags(t.post, t.pre)

\* C22 (amended): the first case for the tenants that have not disabled
\* enableNonRepeatingFallback; with it disabled, or with usedFallbackOnce
\* true, the reply starts with the second fallback text and the flags are
\* unchanged.
C22_FailureByFlagWhenEnabled ==
    (last # None /\ last[1].stage = "failure") =>
        LET t == last[1]
        IN  IF enableNRFallback(cfg) /\ ~t.pre.usedFallbackOnce
            THEN /\ IsPrefix(fallback1(cfg), t.reply)
                 /\ t.post.usedFallbackOnce
                 /\ t.post.errorNotified
                 /\ t.post.askedExtra = t.pre.askedExtra
            ELSE /\ IsPrefix(fallback2(cfg), t.reply)
                 /\ SameFlags(t.post, t.pre)

\* C22 witness: a provider failure after an empty provider response, with
\* usedFallbackOnce true and no error note sent yet: second text, flags
\* unchanged.
C22_Witness ==
    /\ last # None
    /\ last[1].stage = "failure"
    /\ enableNRFallback(cfg)
    /\ last[1].pre.usedFallbackOnce
    /\ ~last[1].pre.errorNotified
    /\ ~last[1].post.errorNotified
    /\ ~IsPrefix(fallback1(cfg), last[1].reply)

\* the failure reply f is the first fallback text with the error note
NoteAppended(f) ==
    /\ f.first
    /\ errorNoteOnce(cfg) # << >>
    /\ f.reply = fallback1(cfg) \o FallbackMenuSuffix(cfg) \o errorNoteOnce(cfg)

\* C23: of the provider-failure replies of a session at most one has the
\* error note appended, and no turn resets errorNotified.
C23_ErrorNoteAtMostOnce ==
    /\ \A i, j \in 1..Len(fails) :
          i < j => ~(NoteAppended(fails[i]) /\ NoteAppended(fails[j]))
    /\ (last # None /\ last[1].pre.errorNotified) => last[1].post.errorNotified

\* C23 witness: the first fallback text is used twice, a semantic hit
\* having cleared usedFallbackOnce in between, with the note the first time
\* only.
C23_Witness ==
    /\ Len(fails) = 2
    /\ fails[1].first
    /\ fails[2].first
    /\ NoteAppended(fails[1])
    /\ ~NoteAppended(fails[2])
    /\ "semantic" \in fails[2].before

\* C24: a semantic hit replies with the answer of the best candidate, sets
\* askedExtra, clears usedFallbackOnce and keeps errorNotified; the recall,
\* pricing-guardrail and closing stages change nothing of the session but
\* its history.
C24_SemanticAndPassiveStages ==
    last # None =>
        LET t == last[1]
            best == BestCandidate(cfg, ToLower(t.messageRaw))
        IN  /\ t.stage = "semantic" =>
                  /\ best # None
                  /\ t.reply = best[1].item.a
                  /\ t.post.askedExtra
                  /\ ~t.post.usedFallbackOnce
                  /\ t.post.errorNotified = t.pre.errorNotified
            /\ t.stage \in { "recall", "pricing", "closing" } =>
                  /\ SameFlags(t.post, t.pre)
                  /\ t.post = [t.pre EXCEPT !.history = t.post.history]

\* C24 witness: a semantic hit in a session whose usedFallbackOnce and
\* errorNotified were both true.
C24_Witness ==
    /\ last # None
    /\ last[1].stage = "semantic"
    /\ last[1].pre.usedFallbackOnce
    /\ last[1].pre.errorNotified
    /\ ~last[1].post.usedFallbackOnce
    /\ last[1].post.errorNotified

\* C25: an empty or missing provider response to a message without pricing
\* intent is answered with the first fallback text, followed by the menu
\* when attachMenuOnFallback and menuItemCount > 0 and by nothing else, and
\* the history ends with the message and that reply.
C25_EmptyResponseFallsBack ==
    ( /\ last # None
      /\ last[1].outcome # None
      /\ ~last[1].outcome[1].throws
      /\ last[1].outcome[1].text = << >>
      /\ ~PRICING_RE(ToLower(last[1].messageRaw)) )
    => /\ last[1].reply =
            fallback1(cfg) \o
            (IF attachMenuOnFallback(cfg) /\ menuItemCount(cfg) > 0
             THEN menuFromCommonQuestions(cfg, menuItemCount(cfg))
             ELSE << >>)
       /\ IsSuffix(TurnPair(last[1]), last[1].post.history)

\* C25 witness: an empty response answered with the first fallback text
\* and the menu, in a session that has not been sent the error note.
C25_Witness ==
    /\ last # None
    /\ last[1].stage = "generative"
    /\ last[1].outcome[1].text = << >>
    /\ errorNoteOnce(cfg) # << >>
    /\ ~last[1].pre.errorNotified
    /\ FallbackMenuSuffix(cfg) # << >>
    /\ last[1].reply = fallback1(cfg) \o FallbackMenuSuffix(cfg)

\* C26 (as claimed): a request suspended in the provider call was given
\* the last historyTurns entries of the history it found (all of them when
\* there are fewer), and none when historyTurns is 0.
C26_PriorIsRecentWindow ==
    \A i \in 1..Len(pending) :
        LET h == pending[i].entry.history
            k == Min2(historyTurns(cfg), Len(h))
        IN  pending[i].prior = SubSeq(h, Len(h) - k + 1, Len(h))

\* C30: no request with pricing intent is suspended in the provider call
\* or answered by the generative or failure stage, and a non-empty
\* provider response is the reply as it came.
C30_ProviderNeverSeesPricingIntent ==
    /\ \A i \in 1..Len(pending) : ~PRICING_RE(ToLower(pending[i].messageRaw))
    /\ (last # None /\ last[1].outcome # None) =>
          /\ ~PRICING_RE(ToLower(last[1].messageRaw))
          /\ (~last[1].outcome[1].throws /\ last[1].outcome[1].text # << >>)
                => last[1].reply = last[1].outcome[1].text

\* C30 witness: the provider answered a request of a session in which the
\* guardrail had answered a pricing-intent message before.
C30_Witness ==
    /\ last # None
    /\ last[1].stage = "generative"
    /\ last[1].reply = << "model", "answer" >>
    /\ \E i \in 1..(Len(last[1].pre.history) - 1) :
          /\ last[1].pre.history[i] = UserEntry(<< "fee" >>)
          /\ last[1].pre.history[i + 1] = AssistantEntry(getPricingLine(cfg))

\* the turn that replied last was answered by the provider
PreviousResponded ==
    last # None /\ last[1].outcome # None /\ ~last[1].outcome[1].throws

\* the step replies to a request whose provider call has settled
ProviderSettles == Len(pending') < Len(pending)

\* C31 (as claimed): an empty provider response leaves usedFallbackOnce
\* true and a non-empty one leaves it false; a provider failure on the
\* turn right after an empty-response turn is answered from the second
\* fallback text, and one right after a non-empty provider response from
\* the first fallback text.
C31_FlagFollowsResponse ==
    [][ ProviderSettles =>
          LET t == last'[1]
              f == fails'[Len(fails')]
          IN  /\ t.stage = "generative" =>
                    t.post.usedFallbackOnce = (t.outcome[1].text = << >>)
              /\ (t.stage = "failure" /\ PreviousResponded) =>
                    IF last[1].outcome[1].text = << >>
                    THEN ~f.first /\ IsPrefix(fallback2(cfg), t.reply)
                    ELSE f.first /\ IsPrefix(fallback1(cfg), t.reply)
      ]_vars

\* C31 (amended): the same, the first fallback text being used again
\* after a non-empty provider response by the tenants that have not
\* disabled enableNonRepeatingFallback; the others are answered from the
\* second text.
C31_FlagFollowsResponseWhenEnabled ==
    [][ ProviderSettles =>
          LET t == last'[1]
              f == fails'[Len(fails')]
          IN  /\ t.stage = "generative" =>
                    t.post.usedFallbackOnce = (t.outcome[1].text = << >>)
              /\ (t.stage = "failure" /\ PreviousResponded) =>
                    IF enableNRFallback(cfg) /\ last[1].outcome[1].text # << >>
                    THEN f.first /\ IsPrefix(fallback1(cfg), t.reply)
                    ELSE ~f.first /\ IsPrefix(fallback2(cfg), t.reply)
      ]_vars

\* C31 witness: a failure, an empty provider response, a failure: the
\* turn right after the empty response is answered from the second text
\* by a tenant with non-repeating fallback enabled.
C31_Witness ==
    /\ turns = 3
    /\ pending = << >>
    /\ Len(fails) = 2
    /\ enableNRFallback(cfg)
    /\ fails[2].before = { "generative-empty" }
    /\ fails[2].pre.usedFallbackOnce
    /\ ~fails[2].first
    /\ fails[2].reply = SecondFailureReply
    /\ last[1].stage = "failure"

---------------------------------------------------------------------------
(* The greeter / low-info stage on its own: the first request of a         *)
(* session, over tenants that set their own greeting and low-info          *)
(* patterns, menu size and common questions.                               *)

WordPattern(w) == [kind |-> "word", w |-> w]

ExactPattern(w) == [kind |-> "exact", w |-> w]

BrokenPattern == [kind |-> "broken", w |-> "("]

\* behavior.greetingPatterns: unset, [], and lists of pattern sources
GreetingPatternChoices ==
    { None,
      Some(<< >>),
      Some(<< WordPattern("sup"), WordPattern("install") >>),
      Some(<< WordPattern("refund"), ExactPattern("nope") >>),
      Some(<< WordPattern("refund"), BrokenPattern >>) }

\* behavior.lowInfoPatterns
LowInfoPatternChoices == { None, Some(<< ExactPattern("hi") >>) }

FiveQuestions ==
    << << "how", "to", "install", "?" >>, << "pricing", "?" >>,
       << "refund", "policy" >>, << "hours" >>, << "contact" >> >>

CommonQuestionChoices == { << >>, BaseConfig.commonQuestions, FiveQuestions }

MenuItemCountChoices == { None, Some(0), Some(1), Some(3) }

GreeterConfigs ==
    { [BaseConfig EXCEPT
          !.enableGreeter = g,
          !.greetingPatterns = gp,
          !.lowInfoPatterns = lp,
          !.menuItemCount = n,
          !.commonQuestions = qs] :
        g \in { None, Some(FALSE) }, gp \in GreetingPatternChoices,
        lp \in LowInfoPatternChoices, n \in MenuItemCountChoices,
        qs \in CommonQuestionChoices }

\* req.body.message of the one request
GreeterMessages ==
    { << "Hi" >>,
      << "sup" >>,
      << "nope" >>,
      << "refund" >>,
      << "Install" >>,
      << "Hi", "refund" >>,
      << "Last", "message", "?" >> }

InitGreeter ==
    /\ cfg \in GreeterConfigs
    /\ sess = None
    /\ pending = << >>
    /\ turns = 0
    /\ last = None
    /\ fails = << >>
    /\ call = None
    /\ TenantsInit

\* POST /chat, the first request of the session
GreeterChat == \E m \in GreeterMessages : turns = 0 /\ ChatStart(m, 1)

NextGreeter == GreeterChat \/ Provider

SpecGreeter == InitGreeter /\ [][NextGreeter]_vars

\* the menu as claimed: the header and the first menuItemCount common
\* questions, one bullet each; nothing for a count of 0 or no questions
ClaimedMenu ==
    LET qs == cfg.commonQuestions
        k  == Min2(menuItemCount(cfg), Len(qs))
    IN  IF k <= 0 THEN << >>
        ELSE MenuHeader \o Flatten([ i \in 1..k |-> MenuBullet \o qs[i] ])

\* C27: the greeter stage replies only for a tenant with the greeter
\* enabled; its reply to a message that matches the greeting pattern is
\* the greeter message, also when the message matches the low-info
\* pattern, and the clarification message otherwise, followed by the menu
\* of at most menuItemCount common questions in configuration order (none
\* for a count of 0 or without common questions); it sets askedExtra.  With
\* the greeter disabled the message goes on to the semantic stage.
C27_GreeterStage ==
    LET m     == IF last # None THEN last[1].messageRaw
                 ELSE pending[1].messageRaw
        lower == ToLower(m)
        greet == GreetingTest(cfg, lower)
        low   == LowInfoTest(cfg, lower)
        stage == IF last # None THEN last[1].stage ELSE "await"
    IN  (turns = 1 /\ ~RECALL_RE(lower)) =>
          /\ stage = "greeting" <=> (enableGreeter(cfg) /\ (greet \/ low))
          /\ stage = "greeting" =>
                /\ last[1].reply =
                      (IF greet THEN greeterMessage(cfg) ELSE clarifyMessage(cfg))
                      \o ClaimedMenu
                /\ last[1].post.askedExtra
                /\ last[1].post.history =
                      << UserEntry(m), AssistantEntry(last[1].reply) >>
          /\ (~enableGreeter(cfg) /\ (greet \/ low) /\ SemanticCond(cfg, lower)) =>
                /\ stage = "semantic"
                /\ last[1].reply = SemanticMatch(cfg, lower)[1].a

\* C27 witness: a message that matches the greeting and the low-info
\* pattern is answered with the greeter message and a menu cut to
\* menuItemCount questions.
C27_Witness ==
    /\ last # None
    /\ last[1].stage = "greeting"
    /\ GreetingTest(cfg, ToLower(last[1].messageRaw))
    /\ LowInfoTest(cfg, ToLower(last[1].messageRaw))
    /\ greeterMessage(cfg) # clarifyMessage(cfg)
    /\ Len(cfg.commonQuestions) > menuItemCount(cfg)
    /\ menuItemCount(cfg) > 1
    /\ last[1].reply = greeterMessage(cfg) \o ClaimedMenu
    /\ last[1].post.askedExtra

---------------------------------------------------------------------------
(* Concurrent requests of one visitor for one tenant: every handler holds  *)
(* the same session object (const s = req.session[clientId]) and the       *)
(* handlers interleave at the await of the provider call only.             *)

\* requests of the session suspended in the provider call at a time
MaxInFlight == 2

ConcurrentConfigs ==
    { c \in Configs :
        /\ c.enableGreeter = None
        /\ c.menuItemCount = None
        /\ c.closingMessage = << >> }

\* req.body.message: to the provider, a semantic hit, the greeter
ConcurrentMessages == { << "refund" >>, << "Install", "PRICE" >>, << "Hi" >> }

InitConcurrent ==
    /\ cfg \in ConcurrentConfigs
    /\ sess = None
    /\ pending = << >>
    /\ turns = 0
    /\ last = None
    /\ fails = << >>
    /\ call = None
    /\ TenantsInit

\* POST /chat while at most MaxInFlight - 1 requests of the session wait
ConcurrentChat == \E m \in ConcurrentMessages : ChatStart(m, MaxInFlight)

NextConcurrent == ConcurrentChat \/ Provider

SpecConcurrent == InitConcurrent /\ [][NextConcurrent]_vars

\* h is a sequence of pairs: a user entry, then an assistant entry
PairsOnly(h) ==
    /\ Len(h) % 2 = 0
    /\ \A i \in 1..Len(h) :
          h[i].role = (IF i % 2 = 1 THEN "user" ELSE "assistant")

\* C28 (as claimed): a turn that replies while another request of the
\* session is suspended in the provider call leaves a history that ends
\* with its own user entry and reply, is a sequence of user/assistant
\* pairs, and holds at most 2 x historyTurns entries.
C28_ConcurrentPairsAndCap ==
    (last # None /\ last[1].waiting # {}) =>
        LET h == last[1].post.history
        IN  /\ PairsOnly(h)
            /\ h # << >> => IsSuffix(TurnPair(last[1]), h)
            /\ Len(h) <= 2 * historyTurns(cfg)

\* failures i < j of requests that were suspended at the same time
BothSuspended(i, j) ==
    /\ i < j
    /\ fails[j].no \in fails[i].waiting

---------------------------------------------------------------------------
(* The semantic matcher on its own: direct calls of bestSemanticMatch and  *)
(* of the handler's semantic pass, over tenants with every FAQ list of at  *)
(* most MaxFaqs entries, and the first /chat request of a session for      *)
(* these tenants.  The helpers read their arguments only, so a behaviour   *)
(* makes one call or one request.                                          *)

\* ties with InstallFaq on "install" (four tokens each)
SetupFaq ==
    [q |-> << "setup", "help" >>, keywords |-> << >>,
     a |-> << "install", "wizard" >>]

\* eight tokens, one of them "refund"
RefundFaq ==
    [q |-> << "refund", "policy" >>, keywords |-> << "returns", "billing" >>,
     a |-> << "contact", "support", "within", "thirty" >>]

\* an entry without "a"
NoAnswerFaq == [q |-> << "install" >>, keywords |-> << >>, a |-> << >>]

\* an entry with a pricing keyword and without "a"
NoAnswerPricingFaq == [q |-> << >>, keywords |-> << "fee" >>, a |-> << >>]

\* an entry that speaks of cost and has no pricing keyword
DeliveryFaq ==
    [q |-> << "delivery", "cost" >>, keywords |-> << >>,
     a |-> << "delivery", "is", "free" >>]

FaqPool ==
    { InstallFaq, PricingFaq, SetupFaq, RefundFaq, NoAnswerFaq,
      NoAnswerPricingFaq, DeliveryFaq }

MaxFaqs == 2

FaqLists == UNION { [1..n -> FaqPool] : n \in 0..MaxFaqs }

KnowledgeChoices ==
    { << >>,
      << [k |-> << "install" >>, isArray |-> FALSE,
          s |-> << "setup", "help", "wizard" >>, lines |-> << >>] >>,
      << [k |-> << "hours" >>, isArray |-> TRUE, s |-> << >>,
          lines |-> << << "open", "daily" >>, << "closed", "sunday" >> >>],
         [k |-> PricingPolicyKey, isArray |-> FALSE,
          s |-> << "plans", "start", "at", "$", "20" >>, lines |-> << >>] >> }

\* behavior.semantic.minScore in hundredths: unset, 0, -1, 0.5
MinScoreChoices == { None, Some(0), Some(-100), Some(50) }

MatchConfigs ==
    { [BaseConfig EXCEPT !.faqs = f, !.knowledge = kn, !.minScore = ms] :
        f \in FaqLists, kn \in KnowledgeChoices, ms \in MinScoreChoices }

MatchMessages ==
    { << >>,
      << "-" >>,
      << "how", "are", "you", "?" >>,
      << "Install" >>,
      << "setup" >>,
      << "what", "'", "s", "your", "pricing", "?" >>,
      << "late", "order", "refund", "status" >>,
      << "hours", "sunday" >> }

\* minScore arguments of the direct calls, in hundredths
MatchThresholds == { -100, 0, 18, 50, 100 }

InitMatch ==
    /\ cfg \in MatchConfigs
    /\ sess = None
    /\ pending = << >>
    /\ turns = 0
    /\ last = None
    /\ fails = << >>
    /\ call = None
    /\ TenantsInit

\* what a call of the matcher saw and returned
MatchRecord(fn, userMsg, minScore) ==
    [fn |-> fn, userMsg |-> userMsg, minScore |-> minScore,
     items |-> SemanticItems(cfg),
     best |-> BestCandidate(cfg, userMsg),
     result |-> bestSemanticMatch(cfg, userMsg, minScore)]

\* bestSemanticMatch(cfg, userMsg, minScore)
CallBestSemanticMatch(userMsg, minScore) ==
    /\ call = None
    /\ turns = 0
    /\ call' = << MatchRecord("bestSemanticMatch", userMsg, minScore) >>
    /\ UNCHANGED << cfg, sess, pending, turns, last, fails >>
    /\ UNCHANGED tvars

\* const sem = bestSemanticMatch(cfg, lower, Number(minSemantic) || 0.18)
CallSemanticPass(messageRaw) ==
    /\ call = None
    /\ turns = 0
    /\ call' = << MatchRecord("semanticPass", ToLower(messageRaw),
                              SemanticThreshold(cfg)) >>
    /\ UNCHANGED << cfg, sess, pending, turns, last, fails >>
    /\ UNCHANGED tvars

DirectCall ==
    \E m \in MatchMessages, ms \in MatchThresholds : CallBestSemanticMatch(m, ms)

\* getPricingLine(cfg)
CallGetPricingLine ==
    /\ call = None
    /\ turns = 0
    /\ call' = << [fn |-> "getPricingLine", result |-> getPricingLine(cfg)] >>
    /\ UNCHANGED << cfg, sess, pending, turns, last, fails >>
    /\ UNCHANGED tvars

SemanticPass == \E m \in MatchMessages : CallSemanticPass(m)

HowMuch == << "how", "much", "does", "it", "cost" >>

\* req.body.message of the one request
TurnMessages ==
    { HowMuch,
      << "Install" >>,
      << "fee" >>,
      << "what", "'", "s", "your", "pricing", "?" >> }

\* POST /chat, the first request of the session
ChatTurn ==
    \E m \in TurnMessages : call = None /\ turns = 0 /\ ChatStart(m, 1)

NextMatch == DirectCall \/ SemanticPass \/ CallGetPricingLine \/ ChatTurn

SpecMatch == InitMatch /\ [][NextMatch]_vars

---------------------------------------------------------------------------
(* Properties of the semantic matcher                                      *)

ZeroScore(x) == x.n = 0

\* a call of the matcher has been made
MatcherCalled ==
    call # None /\ call[1].fn \in { "bestSemanticMatch", "semanticPass" }

\* C8 (as claimed): a message with no tokens scores 0 against every
\* candidate and bestSemanticMatch returns no match, whatever the
\* threshold, zero and negative ones included.
C8_EmptyMessageNeverMatches ==
    (MatcherCalled /\ tokenize(call[1].userMsg) = {}) =>
        /\ \A i \in 1..Len(call[1].items) :
              ZeroScore(CandidateScore(call[1].items[i], {}))
        /\ call[1].result = None

\* the knowledge snippets, entry by entry
SnippetsOf(e) ==
    IF e.isArray
    THEN [ i \in 1..Len(e.lines) |->
             [q |-> e.k \o << IndexToken(i) >>, a |-> e.lines[i]] ]
    ELSE << [q |-> e.k, a |-> e.s] >>

ExpectedSnippets ==
    Flatten([ i \in 1..Len(cfg.knowledge) |-> SnippetsOf(cfg.knowledge[i]) ])

\* the indices of the candidates no other candidate outscores
TopIndices(c) ==
    { i \in 1..Len(c.items) :
        \A j \in 1..Len(c.items) :
            ~ScoreGt(CandidateScore(c.items[j], tokenize(c.userMsg)),
                     CandidateScore(c.items[i], tokenize(c.userMsg))) }

\* C9: the candidates are the FAQs in configuration order followed by the
\* knowledge snippets, and the candidate chosen is the one of smallest
\* index among those of highest score; a match returned is that candidate.
C9_FirstOfTheBestWins ==
    MatcherCalled =>
        LET c == call[1]
            n == Len(cfg.faqs)
        IN  /\ Len(c.items) = n + Len(ExpectedSnippets)
            /\ \A i \in 1..n :
                  /\ c.items[i].a = cfg.faqs[i].a
                  /\ c.items[i].q = cfg.faqs[i].q \o cfg.faqs[i].keywords
            /\ \A i \in 1..Len(ExpectedSnippets) :
                  c.items[n + i] = ExpectedSnippets[i]
            /\ (c.best = None) <=> (c.items = << >>)
            /\ c.best # None =>
                  /\ c.best[1].idx \in TopIndices(c)
                  /\ \A i \in TopIndices(c) : c.best[1].idx <= i
                  /\ c.best[1].item = c.items[c.best[1].idx]
            /\ c.result # None => c.result[1] = c.items[c.best[1].idx]

\* C9 witness: an FAQ and a knowledge snippet tie with the highest, positive
\* score, an FAQ that is not the first candidate wins and is returned.
C9_Witness ==
    /\ MatcherCalled
    /\ call[1].best # None
    /\ ~ZeroScore(call[1].best[1].score)
    /\ call[1].best[1].idx = 2
    /\ \E i \in TopIndices(call[1]) : i > Len(cfg.faqs)
    /\ call[1].result = << call[1].items[2] >>

\* the threshold the tenant configured, 0.18 when it configured none
ConfiguredThreshold == Nullish(cfg.minScore, DefaultMinScore)

\* C10 (as claimed): the semantic pass yields the highest-scoring
\* candidate exactly when its score is at least the configured threshold
\* (0.18 when none is configured).  Stated for a best candidate that has an
\* answer and a positive score.
C10_MatchIffScoreAtLeastThreshold ==
    ( /\ call # None
      /\ call[1].fn = "semanticPass"
      /\ call[1].best # None
      /\ call[1].best[1].item.a # << >>
      /\ ~ZeroScore(call[1].best[1].score) )
    => ( call[1].result = << call[1].best[1].item >>
            <=> ScoreGeHundredths(call[1].best[1].score, ConfiguredThreshold) )


\* the message of the one request, replied to or waiting for the provider
TurnMessage == IF last # None THEN last[1].messageRaw ELSE pending[1].messageRaw

\* stage and reply of the one request
TurnOutcome ==
    IF last # None THEN << last[1].stage, last[1].reply >>
    ELSE << "await", << >> >>

RECURSIVE WithAnswer(_)
\* the FAQs that have an answer, in order
WithAnswer(faqs) ==
    IF faqs = << >> THEN << >>
    ELSE IF Head(faqs).a = << >> THEN WithAnswer(Tail(faqs))
    ELSE << Head(faqs) >> \o WithAnswer(Tail(faqs))

\* C19 (as claimed): a reply taken from an FAQ entry (semantic stage,
\* pricing guardrail) is never empty, and the request is answered as it is
\* for the tenant without its answerless FAQ entries.
C19_AnswerlessFaqSkipped ==
    turns = 1 =>
        /\ TurnOutcome[1] \in { "semantic", "pricing" } => TurnOutcome[2] # << >>
        /\ LET skipped == [cfg EXCEPT !.faqs = WithAnswer(cfg.faqs)]
               res == SyncStages(skipped, NewSession, TurnMessage)
           IN  TurnOutcome = << res.stage, res.reply >>

\* C20 (as claimed): a tenant with no FAQ that has a pricing keyword and no
\* knowledge.pricing_policy answers "how much does it cost" with the
\* hard-coded default pricing sentence, whatever else it configures.
\* Stated for the tenants that leave the semantic threshold at its default.
C20_DefaultPricingSentence ==
    ( /\ turns = 1
      /\ cfg.minScore = None
      /\ TurnMessage = HowMuch
      /\ FirstPricingFaq(cfg.faqs, 1) = 0
      /\ KnowledgePricingPolicy(cfg) = << >> )
    => TurnOutcome = << "pricing", DefaultPricingLine >>

\* the pricing vocabulary, keywords compared in lower case
IsPricingFaq(f) ==
    \E j \in 1..Len(f.keywords) :
        LowerToken(f.keywords[j]) \in
            { "pricing", "cost", "monthly", "fee", "charge", "subscription",
              "price", "money" }

\* C21: getPricingLine returns the answer of the first FAQ, in
\* configuration order, that has a keyword of the pricing vocabulary;
\* when no FAQ has one, knowledge.pricing_policy if the tenant has it;
\* otherwise the hard-coded default sentence.
C21_PricingLinePrecedence ==
    (call # None /\ call[1].fn = "getPricingLine") =>
        LET hits == { i \in 1..Len(cfg.faqs) : IsPricingFaq(cfg.faqs[i]) }
            policy == KnowledgePricingPolicy(cfg)
        IN  call[1].result =
                IF hits # {}
                THEN cfg.faqs[CHOOSE i \in hits : \A j \in hits : i <= j].a
                ELSE IF policy # << >> THEN policy
                ELSE DefaultPricingLine

\* C21 witness: the tenant has a knowledge pricing policy and its second
\* FAQ is the first with a pricing keyword: the line is that FAQ's answer.
C21_Witness ==
    /\ call # None
    /\ call[1].fn = "getPricingLine"
    /\ Len(cfg.faqs) = 2
    /\ ~IsPricingFaq(cfg.faqs[1])
    /\ IsPricingFaq(cfg.faqs[2])
    /\ KnowledgePricingPolicy(cfg) # << >>
    /\ call[1].result = cfg.faqs[2].a
    /\ call[1].result # << >>
    /\ call[1].result # KnowledgePricingPolicy(cfg)

---------------------------------------------------------------------------
(* Tenants, visitors and configuration hot-reload: /chat requests of       *)
(* several visitors for several client ids, with configuration files       *)
(* rewritten while the server runs.  A visitor has one request in flight   *)
(* at a time; requests of different visitors interleave at the provider    *)
(* call.                                                                   *)

\* requests of a run
MaxRequests == 3

\* file writes of a run
MaxWrites == 1

TenantMessages == { << "Hi" >>, << "refund" >> }

TenantOutcomes ==
    { [throws |-> TRUE, text |-> << >>],
      [throws |-> FALSE, text |-> << "model", "answer" >>] }

WrittenFiles == { InvalidFile, ValidFile(ConfigV2) }

\* readClientConfig(clientId): None for null
readClientConfig(fs, clientId) ==
    IF ~fs[clientId].exists THEN None ELSE fs[clientId].json

\* getClientConfig(clientId): the value returned, the cache it leaves, and
\* what readClientConfig parsed on the way (None when it was not called or
\* returned null)
getClientConfig(cache, fs, clientId) ==
    IF clientId = "" THEN [cfg |-> None, cache |-> cache, read |-> None]
    ELSE IF cache[clientId] # None
    THEN [cfg |-> cache[clientId], cache |-> cache, read |-> None]
    ELSE LET c == readClientConfig(fs, clientId)
         IN  [cfg |-> c, read |-> c,
              cache |-> IF c # None THEN [cache EXCEPT ![clientId] = c]
                        ELSE cache]

\* the fs.watch callback for configs/<id>.json: delete clientCache[id], read
\* the file, cache what was parsed
WatchReload(cache, fs, id) ==
    LET fresh == readClientConfig(fs, id)
    IN  [cache EXCEPT ![id] = fresh]

\* one bucket for all the tenants of a visitor
SessionKey_PerVisitor(clientId) == "acme"

\* req.session[clientId]
SessionKey(clientId) == clientId

\* the session bucket created before the configuration is looked at
ChatEntry_InitFirst(got, session, clientId) ==
    LET init == [session EXCEPT ![SessionKey(clientId)] =
                    IF @ = None THEN Some(NewSession) ELSE @]
    IN  IF got = None THEN [status |-> 400, session |-> init]
        ELSE [status |-> 200, session |-> init]

\* if (!cfg) return res.status(400).json({ error: "Invalid client" }); ...
\* if (!req.session[clientId]) req.session[clientId] = {...}
ChatEntry(got, session, clientId) ==
    IF got = None THEN [status |-> 400, session |-> session]
    ELSE [status |-> 200,
          session |-> [session EXCEPT ![SessionKey(clientId)] =
                          IF @ = None THEN Some(NewSession) ELSE @]]

InitTenants ==
    /\ cfg = BaseConfig
    /\ sess = None
    /\ pending = << >>
    /\ turns = 0
    /\ last = None
    /\ fails = << >>
    /\ call = None
    /\ TenantsInit

StepNo == IF resp = None THEN 1 ELSE resp[1].n + 1

\* what a step of a request did: whether it is the request's arrival, the
\* response sent, if any (status 400 with { error }, or 200 with
\* { reply }), what getClientConfig saw and returned, and every session
\* before and after the step
StepRecord(v, clientId, arrival, status, stage, reply, got, latest) ==
    [n |-> StepNo, visitor |-> v, clientId |-> clientId, arrival |-> arrival,
     status |-> status,
     stage |-> stage, reply |-> reply, got |-> got, latest |-> latest,
     cached |-> clientCache[clientId], file |-> files[clientId],
     before |-> sessions, after |-> sessions']

\* POST /chat?client=clientId of visitor v, up to its response or to the
\* provider call
TenantChatStart(v, clientId, messageRaw) ==
    /\ turns < MaxRequests
    /\ \A i \in 1..Len(pending) : pending[i].visitor # v
    /\ turns' = turns + 1
    /\ LET g == getClientConfig(clientCache, files, clientId)
           e == ChatEntry(g.cfg, sessions[v], clientId)
           latest == IF g.read # None THEN g.read ELSE lastParsed[clientId]
       IN  /\ clientCache' = g.cache
           /\ lastParsed' = [lastParsed EXCEPT ![clientId] = latest]
           /\ IF e.status = 400
              THEN /\ sessions' = [sessions EXCEPT ![v] = e.session]
                   /\ pending' = pending
                   /\ resp' = << StepRecord(v, clientId, TRUE, 400, "error", None,
                                            g.cfg, latest) >>
              ELSE LET key == SessionKey(clientId)
                       res == SyncStages(g.cfg[1], e.session[key][1], messageRaw)
                   IN  /\ sessions' = [sessions EXCEPT ![v] =
                                          [e.session EXCEPT ![key] = Some(res.s)]]
                       /\ pending' =
                            IF res.stage = "await"
                            THEN Append(pending,
                                        [visitor |-> v, clientId |-> clientId,
                                         cfg |-> g.cfg[1],
                                         messageRaw |-> messageRaw])
                            ELSE pending
                       /\ resp' = << StepRecord(v, clientId, TRUE,
                                        IF res.stage = "await" THEN 0 ELSE 200,
                                        res.stage,
                                        IF res.stage = "await" THEN None
                                        ELSE Some(res.reply),
                                        g.cfg, latest) >>
    /\ UNCHANGED << cfg, sess, last, fails, call, files, events, writes >>

\* the provider call of the i-th suspended request settles and the handler
\* runs to its response
TenantProviderReturn(i, outcome) ==
    /\ i \in 1..Len(pending)
    /\ LET req == pending[i]
           key == SessionKey(req.clientId)
           res == AfterProvider(req.cfg, sessions[req.visitor][key][1],
                                req.messageRaw, outcome)
       IN  /\ sessions' = [sessions EXCEPT ![req.visitor][key] = Some(res.s)]
           /\ resp' = << StepRecord(req.visitor, req.clientId, FALSE, 200,
                                    res.stage,
                                    Some(res.reply), Some(req.cfg),
                                    lastParsed[req.clientId]) >>
    /\ pending' = SubSeq(pending, 1, i - 1) \o SubSeq(pending, i + 1, Len(pending))
    /\ UNCHANGED << cfg, sess, turns, last, fails, call, files, clientCache,
                    events, writes, lastParsed >>

\* configs/<id>.json is rewritten; fs.watch will report it
WriteFile(id, content) ==
    /\ writes < MaxWrites
    /\ writes' = writes + 1
    /\ files' = [files EXCEPT ![id] = content]
    /\ events' = events \cup { id }
    /\ UNCHANGED << cfg, sess, pending, turns, last, fails, call, clientCache,
                    sessions, lastParsed, resp >>

\* the fs.watch callback runs for configs/<id>.json
WatchCallback(id) ==
    /\ id \in events
    /\ events' = events \ { id }
    /\ clientCache' = WatchReload(clientCache, files, id)
    /\ lastParsed' = IF readClientConfig(files, id) # None
                     THEN [lastParsed EXCEPT ![id] = readClientConfig(files, id)]
                     ELSE lastParsed
    /\ UNCHANGED << cfg, sess, pending, turns, last, fails, call, files,
                    sessions, writes, resp >>

TenantChat ==
    \E v \in Visitors, id \in ClientIds, m \in TenantMessages :
        TenantChatStart(v, id, m)

TenantProvider ==
    \E i \in 1..Len(pending), o \in TenantOutcomes : TenantProviderReturn(i, o)

\* the file that is rewritten is acme's
ConfigWrite == \E c \in WrittenFiles : WriteFile("acme", c)

ConfigWatch == \E id \in ClientIds : WatchCallback(id)

NextTenants == TenantChat \/ TenantProvider \/ ConfigWrite \/ ConfigWatch

SpecTenants == InitTenants /\ [][NextTenants]_vars

---------------------------------------------------------------------------
(* Properties of tenants, sessions and hot-reload                          *)

\* the client id is empty, or nothing is cached for it and its file is
\* missing or does not parse
NoConfiguration(r) ==
    \/ r.clientId = ""
    \/ r.cached = None /\ r.file.json = None

\* C16: a request for an empty client id, or for one with no cached
\* configuration and a missing or unparsable file, is answered with status
\* 400 and no reply, and leaves every session of every visitor as it was.
C16_UnknownTenantRejected ==
    (resp # None /\ resp[1].arrival /\ NoConfiguration(resp[1])) =>
        /\ resp[1].status = 400
        /\ resp[1].reply = None
        /\ resp[1].after = resp[1].before

\* C16 witness: a visitor with a session for one tenant is rejected for a
\* tenant whose file is there but does not parse.
C16_Witness ==
    /\ resp # None
    /\ resp[1].status = 400
    /\ resp[1].file = InvalidFile
    /\ \E id \in ClientIds : resp[1].before[resp[1].visitor][id] # None
    /\ resp[1].after = resp[1].before

\* C17 (as claimed): getClientConfig returns the configuration that was
\* parsed last for the client id, also after the file has become invalid.
C17_LatestParsedConfigReturned ==
    (resp # None /\ resp[1].arrival /\ resp[1].latest # None) =>
        resp[1].got = resp[1].latest

\* C18: a step of a turn of visitor V for tenant T changes the session of
\* no other (visitor, tenant) pair, no cached configuration and no file.
C18_TurnTouchesOwnSessionOnly ==
    [][ resp' # resp =>
          /\ \A v \in Visitors, id \in ClientIds :
                (v # resp'[1].visitor \/ id # resp'[1].clientId)
                    => sessions'[v][id] = sessions[v][id]
          /\ \A id \in ClientIds :
                clientCache[id] # None => clientCache'[id] = clientCache[id]
          /\ files' = files ]_vars

\* C18 witness: a turn of one visitor is answered while another visitor's
\* request for the same tenant waits for the provider and the visitor has a
\* session for another tenant.
C18_Witness ==
    /\ resp # None
    /\ resp[1].status = 200
    /\ pending # << >>
    /\ resp[1].after # resp[1].before
    /\ \E v \in Visitors \ { resp[1].visitor } :
          resp[1].before[v][resp[1].clientId] # None
    /\ \E id \in ClientIds \ { resp[1].clientId } :
          resp[1].before[resp[1].visitor][id] # None

===========================================================================
